---- MODULE Spec2Model ----
(***************************************************************************)
(* Model of the snake cube solver (snakecube.py, vector.py): the joint     *)
(* direction table, the backtracking head and the resumable backtracking   *)
(* engine, one action per entry branch and per iteration of the loop of    *)
(* Backtrack._backtrack, driven by Backtrack.solve.                        *)
(***************************************************************************)
EXTENDS Integers, Sequences, FiniteSets, TLC

VARIABLES chain, cubesize, start, head, pos, cube, paths, path, pc, calls,
          results, oob

vars == <<chain, cubesize, start, head, pos, cube, paths, path, pc, calls,
          results, oob>>

(***************************************************************************)
(* Bounds of the model.                                                    *)
(***************************************************************************)
\* largest number of steps of a chain, the sum of its slice lengths
MaxSteps == 4
\* number of solutions the model lets the engine of an empty chain collect
MaxPaths == 3
\* number of solve() calls the caller makes on one engine
MaxCalls == 3

(***************************************************************************)
(* vector.py                                                               *)
(***************************************************************************)
Vector3D(x, y, z) == <<x, y, z>>

\* Vector3D.__add__
VAdd(a, b) == Vector3D(a[1] + b[1], a[2] + b[2], a[3] + b[3])

\* Vector3D.__rmul__
VMul(n, v) == Vector3D(v[1] * n, v[2] * n, v[3] * n)

\* Vector3D.to_list
to_list(v) == <<v[1], v[2], v[3]>>

\* Vector3D.__repr__, the text used as the key of the lookup tables
VStr(v) == <<"Vector3D", v[1], v[2], v[3]>>

\* max() and min() of a list of three integers
Max3(l) == CHOOSE m \in {l[1], l[2], l[3]} : \A i \in 1..3 : l[i] <= m
Min3(l) == CHOOSE m \in {l[1], l[2], l[3]} : \A i \in 1..3 : l[i] >= m

\* multiply(matrix, vector): one sum of products per row
multiply(matrix, vector) ==
  LET row(r) == matrix[r][1] * vector[1] + matrix[r][2] * vector[2]
                + matrix[r][3] * vector[3]
  IN  Vector3D(row(1), row(2), row(3))

baseVectors == <<Vector3D(1, 0, 0), Vector3D(0, 1, 0), Vector3D(0, 0, 1)>>

baseDirections ==
  <<Vector3D(1, 0, 0), Vector3D(0, 1, 0), Vector3D(0, 0, 1),
    Vector3D(-1, 0, 0), Vector3D(0, -1, 0), Vector3D(0, 0, -1)>>

rotx == <<<<1, 0, 0>>, <<0, 0, -1>>, <<0, 1, 0>>>>
\* variant: the sign of the last row of roty is lost
roty_SignLost == <<<<0, 0, 1>>, <<0, 1, 0>>, <<1, 0, 0>>>>
roty == <<<<0, 0, 1>>, <<0, 1, 0>>, <<-1, 0, 0>>>>
rotz == <<<<0, -1, 0>>, <<1, 0, 0>>, <<0, 0, 1>>>>

mirror_yz == <<<<-1, 0, 0>>, <<0, 1, 0>>, <<0, 0, 1>>>>

(***************************************************************************)
(* snakecube.py: the joint direction table                                 *)
(***************************************************************************)
N_PLANE_BASEDIR == 4
N_BASEVEC == 3
N_JNTS == 4
JOINT0 == 0
POS_USED == -1
POS_FREE == -2

\* main(): the edge length of the cube of the example chain; the engines of
\* the model have cubes of edge length 1 up to this one
main_cubesize == 3

\* the unset _old_direction of a head that has not changed direction
None == <<>>

mapVtoRM ==
  [k \in {VStr(baseVectors[i]) : i \in 1..3} |->
     IF k = VStr(Vector3D(1, 0, 0)) THEN rotx
     ELSE IF k = VStr(Vector3D(0, 1, 0)) THEN roty
     ELSE rotz]

\* newDirections after j passes of the inner loop for the base vector number i
\* (i counts from 0 as enumerate() does)
RECURSIVE newDirections(_, _)
newDirections(i, j) ==
  IF j = 0
  THEN <<baseVectors[((i + 1) % N_BASEVEC) + 1]>>
  ELSE LET prev == newDirections(i, j - 1)
       IN  Append(prev, multiply(mapVtoRM[VStr(baseVectors[i + 1])],
                                 prev[Len(prev)]))

\* _makeJointDirections(): the same list under the key of a base vector and of
\* its inverse
makeJointDirections ==
  [k \in {VStr(baseVectors[i]) : i \in 1..3}
         \cup {VStr(VMul(-1, baseVectors[i])) : i \in 1..3} |->
     LET i == CHOOSE n \in 0..2 :
                k \in {VStr(baseVectors[n + 1]), VStr(VMul(-1, baseVectors[n + 1]))}
     IN  newDirections(i, N_PLANE_BASEDIR)]

jointDirections == makeJointDirections

\* Python's list[index] counts from 0
ListGet(l, index) == l[index + 1]

(***************************************************************************)
(* snakecube.py: BacktrackHead                                             *)
(***************************************************************************)
BacktrackHead(base, direction) ==
  [base |-> base, direction |-> direction, old_direction |-> None]

get_sign(h) == IF Max3(to_list(h.direction)) = 1 THEN 1 ELSE -1

\* variant: the head moves one step whatever the number of steps
move_OneStep(h, nsteps) == [h EXCEPT !.base = VAdd(h.base, h.direction)]

move(h, nsteps) == [h EXCEPT !.base = VAdd(h.base, VMul(nsteps, h.direction))]

\* variant: the head keeps its direction at a new joint
change_direction_Straight(h) == [h EXCEPT !.old_direction = h.direction]

change_direction(h) ==
  [h EXCEPT !.old_direction = h.direction,
            !.direction = ListGet(jointDirections[VStr(h.direction)], JOINT0)]

\* variant: the list is looked up under the direction of the head, not under
\* the direction it had before the joint
rotate_to_FromDirection(h, joint_state) ==
  [h EXCEPT !.direction =
              ListGet(jointDirections[VStr(h.direction)], joint_state)]

\* rotate_to() past its assertion that _old_direction is set
rotate_to(h, joint_state) ==
  [h EXCEPT !.direction =
              ListGet(jointDirections[VStr(h.old_direction)], joint_state)]

\* the assertion of rotate_to() fails
Unrotated(h) == h.old_direction = None

(***************************************************************************)
(* snakecube.py: Backtrack, the cube                                       *)
(***************************************************************************)
Cells(cs) == (0..(cs - 1)) \X (0..(cs - 1)) \X (0..(cs - 1))

InCube(p, cs) == \A i \in 1..3 : 0 <= p[i] /\ p[i] < cs

\* The cell a list index addresses: Python counts a negative index from the
\* end of the list.  An index outside -cs..cs-1 raises IndexError in Python;
\* the variable oob records every access outside 0..cs-1.
PyIndex(p, cs) == Vector3D(p[1] % cs, p[2] % cs, p[3] % cs)

Offset(h, offset) == VAdd(h.base, VMul(offset, h.direction))

cube_get_offset(c, h, offset, cs) == c[PyIndex(Offset(h, offset), cs)]

cube_set_offset(c, h, offset, value, cs) ==
  [c EXCEPT ![PyIndex(Offset(h, offset), cs)] = value]

\* for i in range(lo, hi): _cube_set_offset(i, value)
RECURSIVE cube_set_range(_, _, _, _, _, _)
cube_set_range(c, h, lo, hi, value, cs) ==
  IF lo >= hi THEN c
  ELSE cube_set_range(cube_set_offset(c, h, lo, value, cs), h, lo + 1, hi,
                      value, cs)

\* variant: the last joint state is taken for a wrapped one
joint_wrapped_OneEarly(joint_state) == joint_state >= N_JNTS - 1

\* variant: the state N_JNTS is not yet taken for a wrapped one
joint_wrapped_OneLate(joint_state) == joint_state > N_JNTS

joint_wrapped(joint_state) == joint_state >= N_JNTS

\* variant: the scan stops at the faces of the cube only, not at used cells
NStepsGoesOn_NoCollision(c, h, cs, nsteps) ==
  LET next == Offset(h, nsteps + 1)
  IN  IF get_sign(h) = 1
      THEN Max3(to_list(next)) < cs
      ELSE Min3(to_list(next)) >= 0

\* variant: the scan stops one cell behind the faces of the cube
NStepsGoesOn_BoundLate(c, h, cs, nsteps) ==
  LET next == Offset(h, nsteps + 1)
  IN  /\ IF get_sign(h) = 1
         THEN Max3(to_list(next)) <= cs
         ELSE Min3(to_list(next)) >= -1
      /\ cube_get_offset(c, h, nsteps + 1, cs) = POS_FREE

\* the condition of the while loops of _nsteps() after nsteps passes
NStepsGoesOn(c, h, cs, nsteps) ==
  LET next == Offset(h, nsteps + 1)
  IN  /\ IF get_sign(h) = 1
         THEN Max3(to_list(next)) < cs
         ELSE Min3(to_list(next)) >= 0
      /\ cube_get_offset(c, h, nsteps + 1, cs) = POS_FREE

RECURSIVE NStepsFrom(_, _, _, _)
NStepsFrom(c, h, cs, nsteps) ==
  IF NStepsGoesOn(c, h, cs, nsteps)
  THEN NStepsFrom(c, h, cs, nsteps + 1)
  ELSE nsteps

\* variant: the count starts at 1, the cell of the head counted as a step
nsteps_StartsAtOne(c, h, cs) == NStepsFrom(c, h, cs, 1)

\* _nsteps()
nsteps(c, h, cs) == NStepsFrom(c, h, cs, 0)

\* the positions _nsteps() reads from the cube
NStepsReads(c, h, cs) ==
  LET n == nsteps(c, h, cs)
      last == Offset(h, n + 1)
      bounded == IF get_sign(h) = 1 THEN Max3(to_list(last)) < cs
                 ELSE Min3(to_list(last)) >= 0
  IN  {Offset(h, i) : i \in 1..n} \cup (IF bounded THEN {last} ELSE {})

Outside(ps, cs) == \E p \in ps : ~InCube(p, cs)

(***************************************************************************)
(* Inputs: Backtrack(chain, cubesize, head)                                *)
(***************************************************************************)
\* the chains of positive slice lengths that sum up to n
RECURSIVE ChainsOfSteps(_)
ChainsOfSteps(n) ==
  IF n = 0 THEN {<<>>}
  ELSE UNION {{<<s>> \o c : c \in ChainsOfSteps(n - s)} : s \in 1..n}

Chains == UNION {ChainsOfSteps(n) : n \in 0..MaxSteps}

Directions == {baseDirections[i] : i \in 1..6}

StartHeads(cs) == {BacktrackHead(b, d) : b \in Cells(cs), d \in Directions}

\* the slice the engine works on: chain[_pos] counts from 0
ChainAt(index) == chain[index + 1]

\* what a solve() call gave its caller: the list it returned, or the exception
\* that left it
Returned(value) == [raised |-> "none", value |-> value]
Raised(exception) == [raised |-> exception, value |-> <<>>]

(***************************************************************************)
(* Backtrack.__init__                                                      *)
(***************************************************************************)
InitEngine(ch, cs, h) ==
  /\ chain = ch
  /\ cubesize = cs
  /\ start = h
  /\ head = h
  /\ pos = 0
  /\ cube = [c \in Cells(cs) |-> POS_FREE]
  /\ paths = <<>>
  /\ path = <<>>
  /\ pc = "idle"
  /\ calls = 0
  /\ results = <<>>
  /\ oob = FALSE

Init ==
  \E ch \in Chains, cs \in 1..main_cubesize :
    \E h \in StartHeads(cs) : InitEngine(ch, cs, h)

(***************************************************************************)
(* Backtrack.solve                                                         *)
(***************************************************************************)
\* solve() with no solution stored yet: it calls _backtrack()
SolveStart ==
  /\ pc = "idle"
  /\ calls < MaxCalls
  /\ paths = <<>>
  /\ calls' = calls + 1
  /\ pc' = "backtrack"
  /\ UNCHANGED <<chain, cubesize, start, head, pos, cube, paths, path,
                 results, oob>>

\* solve() with solutions stored ("already solved"): it returns _paths
SolveAgain ==
  /\ pc = "idle"
  /\ calls < MaxCalls
  /\ paths # <<>>
  /\ calls' = calls + 1
  /\ results' = Append(results, Returned(paths))
  /\ UNCHANGED <<chain, cubesize, start, head, pos, cube, paths, path, pc,
                 oob>>

\* _backtrack() returned None to solve(), which returns _paths
SolveReturns ==
  /\ results' = Append(results, Returned(paths))
  /\ pc' = "idle"
  /\ path' = <<>>

\* an exception leaves _backtrack() and solve()
SolveRaises(exception) ==
  /\ results' = Append(results, Raised(exception))
  /\ pc' = "idle"
  /\ path' = <<>>

(***************************************************************************)
(* Backtrack._backtrack: entry                                             *)
(***************************************************************************)
\* first run (_pos == 0)
BacktrackFirst ==
  /\ pc = "backtrack"
  /\ pos = 0
  /\ path' = <<>>
  /\ cube' = cube_set_offset(cube, head, 0, POS_USED, cubesize)
  /\ oob' = (oob \/ Outside({Offset(head, 0)}, cubesize))
  /\ pc' = "loop"
  /\ UNCHANGED <<chain, cubesize, start, head, pos, paths, calls, results>>

\* subsequent run with no stored solution: self._paths[-1] raises IndexError
ResumeIndexError ==
  /\ pc = "backtrack"
  /\ pos # 0
  /\ paths = <<>>
  /\ SolveRaises("IndexError")
  /\ UNCHANGED <<chain, cubesize, start, head, pos, cube, paths, calls, oob>>

\* variant: the cell of the joint at the end of the undone slice is not freed
Restored_LeavesJoint(p) ==
  LET h == p[Len(p)]
  IN  [pos |-> pos - 1,
       head |-> h,
       path |-> SubSeq(p, 1, Len(p) - 1),
       cube |-> cube_set_range(cube, h, 1, chain[pos], POS_FREE, cubesize),
       touched |-> {Offset(h, i) : i \in 0..(chain[pos] - 1)}]

\* variant: the last snapshot is read from the path but not taken off it
Restored_PathKept(p) ==
  LET h == p[Len(p)]
  IN  [pos |-> pos - 1,
       head |-> h,
       path |-> p,
       cube |-> cube_set_range(cube, h, 1, chain[pos] + 1, POS_FREE, cubesize),
       touched |-> {Offset(h, i) : i \in 0..chain[pos]}]

\* the state a subsequent run and a backing up restore from the path p:
\* _pos, head and path, then the cube
Restored(p) ==
  LET h == p[Len(p)]
      steps_to_delete == ChainAt(pos - 1)
  IN  [pos |-> pos - 1,
       head |-> h,
       path |-> SubSeq(p, 1, Len(p) - 1),
       cube |-> cube_set_range(cube, h, 1, steps_to_delete + 1, POS_FREE,
                               cubesize),
       touched |-> {Offset(h, i) : i \in 0..steps_to_delete}]

\* variant: the head is turned to the direction of the joint state read, not
\* of the next one, while the next one is written to the cell
PickNewDirection_RotatesLate(c, h) ==
  [head |-> rotate_to(h, cube_get_offset(c, h, 0, cubesize) % N_JNTS),
   cube |-> cube_set_offset(c, h, 0, cube_get_offset(c, h, 0, cubesize) + 1,
                            cubesize)]

\* "pick new direction" at the head h on the cube c
PickNewDirection(c, h) ==
  LET joint_state == cube_get_offset(c, h, 0, cubesize)
      rotated == rotate_to(h, (joint_state + 1) % N_JNTS)
  IN  [head |-> rotated,
       cube |-> cube_set_offset(c, rotated, 0, joint_state + 1, cubesize)]

\* subsequent run that restores the first head of the chain: the assertion of
\* rotate_to() fails after _pos, head and the cube have been restored
ResumeUnrotated ==
  /\ pc = "backtrack"
  /\ pos # 0
  /\ paths # <<>>
  /\ LET r == Restored(paths[Len(paths)])
     IN  /\ Unrotated(r.head)
         /\ pos' = r.pos
         /\ head' = r.head
         /\ cube' = r.cube
         /\ oob' = (oob \/ Outside(r.touched, cubesize))
  /\ SolveRaises("AssertionError")
  /\ UNCHANGED <<chain, cubesize, start, paths, calls>>

\* variant: the subsequent run works on the last solution itself, not on a
\* deep copy of it: the snapshot it pops is gone from the stored solution
ResumeRotate_NoCopy ==
  /\ pc = "backtrack"
  /\ pos # 0
  /\ paths # <<>>
  /\ LET p == paths[Len(paths)]
         h == p[Len(p)]
         freed == cube_set_range(cube, h, 1, chain[pos] + 1, POS_FREE, cubesize)
         n == PickNewDirection(freed, h)
     IN  /\ ~Unrotated(h)
         /\ pos' = pos - 1
         /\ path' = SubSeq(p, 1, Len(p) - 1)
         /\ paths' = [paths EXCEPT ![Len(paths)] = SubSeq(p, 1, Len(p) - 1)]
         /\ head' = n.head
         /\ cube' = n.cube
  /\ pc' = "loop"
  /\ UNCHANGED <<chain, cubesize, start, calls, results, oob>>

\* subsequent run: undo the last slice of the last solution and turn its joint
ResumeRotate ==
  /\ pc = "backtrack"
  /\ pos # 0
  /\ paths # <<>>
  /\ LET r == Restored(paths[Len(paths)])
         n == PickNewDirection(r.cube, r.head)
     IN  /\ ~Unrotated(r.head)
         /\ pos' = r.pos
         /\ path' = r.path
         /\ head' = n.head
         /\ cube' = n.cube
         /\ oob' = (oob \/ Outside(r.touched, cubesize))
  /\ pc' = "loop"
  /\ UNCHANGED <<chain, cubesize, start, paths, calls, results>>

(***************************************************************************)
(* Backtrack._backtrack: one pass of the while loop                        *)
(***************************************************************************)
\* variant: the loop ends one slice early
LoopCondition_OneEarly == pos + 1 < Len(chain)

\* while self._pos < self._chainlength
LoopCondition == pos < Len(chain)

InLoop == pc = "loop" /\ LoopCondition

joint_state_at_head == cube_get_offset(cube, head, 0, cubesize)

steps_needed == ChainAt(pos)

steps_allowed == nsteps(cube, head, cubesize)

LoopReads == {Offset(head, 0)} \cup NStepsReads(cube, head, cubesize)

\* variant: the next joint state is written to the cell before rotate_to()
\* is tried
LoopUnrotated_WritesFirst ==
  /\ pc = "loop" /\ pos < Len(chain)
  /\ ~joint_wrapped(cube_get_offset(cube, head, 0, cubesize))
  /\ nsteps(cube, head, cubesize) < chain[pos + 1]
  /\ Unrotated(head)
  /\ cube' = cube_set_offset(cube, head, 0,
                             cube_get_offset(cube, head, 0, cubesize) + 1,
                             cubesize)
  /\ results' = Append(results, Returned(paths))
  /\ pc' = "idle"
  /\ path' = <<>>
  /\ UNCHANGED <<chain, cubesize, start, head, pos, paths, calls, oob>>

\* the slice does not fit and the head has never changed direction:
\* rotate_to() fails its assertion, _backtrack() returns None
LoopUnrotated ==
  /\ InLoop
  /\ ~joint_wrapped(joint_state_at_head)
  /\ steps_allowed < steps_needed
  /\ Unrotated(head)
  /\ oob' = (oob \/ Outside(LoopReads, cubesize))
  /\ SolveReturns
  /\ UNCHANGED <<chain, cubesize, start, head, pos, cube, paths, calls>>

\* the slice does not fit: turn the joint to its next state
LoopRotate ==
  /\ InLoop
  /\ ~joint_wrapped(joint_state_at_head)
  /\ steps_allowed < steps_needed
  /\ ~Unrotated(head)
  /\ LET n == PickNewDirection(cube, head)
     IN  /\ head' = n.head
         /\ cube' = n.cube
  /\ oob' = (oob \/ Outside(LoopReads, cubesize))
  /\ UNCHANGED <<chain, cubesize, start, pos, paths, path, pc, calls, results>>

\* variant: the slice is laid down without the test that it fits
LoopPlace_Unchecked ==
  /\ pc = "loop" /\ pos < Len(chain)
  /\ ~joint_wrapped(cube_get_offset(cube, head, 0, cubesize))
  /\ cube' = cube_set_offset(
               cube_set_range(cube, head, 1, chain[pos + 1], POS_USED,
                              cubesize),
               head, chain[pos + 1], JOINT0, cubesize)
  /\ path' = Append(path, head)
  /\ head' = change_direction(move(head, chain[pos + 1]))
  /\ pos' = pos + 1
  /\ UNCHANGED <<chain, cubesize, start, paths, pc, calls, results, oob>>

\* the slice fits: lay it down and move the head to the new joint
LoopPlace ==
  /\ InLoop
  /\ ~joint_wrapped(joint_state_at_head)
  /\ ~(steps_allowed < steps_needed)
  /\ cube' = cube_set_offset(
               cube_set_range(cube, head, 1, steps_needed, POS_USED, cubesize),
               head, steps_needed, JOINT0, cubesize)
  /\ path' = Append(path, head)
  /\ head' = change_direction(move(head, steps_needed))
  /\ pos' = pos + 1
  /\ oob' = (oob \/ Outside(LoopReads \cup
                            {Offset(head, i) : i \in 1..steps_needed}, cubesize))
  /\ UNCHANGED <<chain, cubesize, start, paths, pc, calls, results>>

\* the joint wrapped around at the second slice: the search is exhausted
LoopExhausted ==
  /\ InLoop
  /\ joint_wrapped(joint_state_at_head)
  /\ pos = 1
  /\ oob' = (oob \/ Outside({Offset(head, 0)}, cubesize))
  /\ SolveReturns
  /\ UNCHANGED <<chain, cubesize, start, head, pos, cube, paths, calls>>

\* variant: the back-up restores the head and the cube but does not turn the
\* joint it comes back to
LoopBackUp_NoTurn ==
  /\ pc = "loop" /\ pos < Len(chain)
  /\ joint_wrapped(cube_get_offset(cube, head, 0, cubesize))
  /\ pos # 1
  /\ pos' = pos - 1
  /\ path' = SubSeq(path, 1, Len(path) - 1)
  /\ head' = path[Len(path)]
  /\ cube' = cube_set_range(cube, path[Len(path)], 1, chain[pos] + 1, POS_FREE,
                            cubesize)
  /\ UNCHANGED <<chain, cubesize, start, paths, pc, calls, results, oob>>

\* the joint wrapped around: back up one slice and turn the joint before it
LoopBackUp ==
  /\ InLoop
  /\ joint_wrapped(joint_state_at_head)
  /\ pos # 1
  /\ LET r == Restored(path)
         n == PickNewDirection(r.cube, r.head)
     IN  /\ pos' = r.pos
         /\ path' = r.path
         /\ head' = n.head
         /\ cube' = n.cube
         /\ oob' = (oob \/ Outside({Offset(head, 0)} \cup r.touched, cubesize))
  /\ UNCHANGED <<chain, cubesize, start, paths, pc, calls, results>>

\* the loop ends: _backtrack() returns path, solve() appends it to _paths and
\* calls _backtrack() again
LoopSolution ==
  /\ pc = "loop"
  /\ ~LoopCondition
  \* with an empty chain _paths grows for ever: such a run is followed up to
  \* MaxPaths entries
  /\ chain = <<>> => Len(paths) < MaxPaths
  /\ paths' = Append(paths, path)
  /\ path' = <<>>
  /\ pc' = "backtrack"
  /\ UNCHANGED <<chain, cubesize, start, head, pos, cube, calls, results, oob>>

Next ==
  \/ SolveStart
  \/ SolveAgain
  \/ BacktrackFirst
  \/ ResumeIndexError
  \/ ResumeUnrotated
  \/ ResumeRotate
  \/ LoopUnrotated
  \/ LoopRotate
  \/ LoopPlace
  \/ LoopExhausted
  \/ LoopBackUp
  \/ LoopSolution

Spec == Init /\ [][Next]_vars

\* the steps of the engine once solve() has been called: the code is
\* synchronous and runs each call to its end
EngineStep ==
  \/ BacktrackFirst
  \/ ResumeIndexError
  \/ ResumeUnrotated
  \/ ResumeRotate
  \/ LoopUnrotated
  \/ LoopRotate
  \/ LoopPlace
  \/ LoopExhausted
  \/ LoopBackUp
  \/ LoopSolution

\* the engines of the chains of one slice, in the cubes of edge length 1 and 2
InitOneSlice ==
  \E ch \in {<<s>> : s \in 1..MaxSteps}, cs \in 1..2 :
    \E h \in StartHeads(cs) : InitEngine(ch, cs, h)

NextOneSlice ==
  \/ SolveStart
  \/ SolveAgain
  \/ BacktrackFirst
  \/ ResumeUnrotated
  \/ LoopUnrotated
  \/ LoopPlace
  \/ LoopSolution

FairSpec ==
  InitOneSlice /\ [][NextOneSlice]_vars /\ WF_vars(EngineStep)

(***************************************************************************)
(* main(): the example chain in the 3x3x3 cube from the first starting     *)
(* point                                                                   *)
(***************************************************************************)
chain_slices == <<2, 1, 1, 2, 1, 2, 1, 1, 2, 2, 1, 1, 1, 2, 2, 2, 2>>

InitC ==
  InitEngine(chain_slices, main_cubesize,
             BacktrackHead(Vector3D(0, 0, 0), Vector3D(1, 0, 0)))

NextC ==
  \/ SolveStart
  \/ SolveAgain
  \/ BacktrackFirst
  \/ ResumeRotate
  \/ LoopRotate
  \/ LoopPlace
  \/ LoopExhausted
  \/ LoopBackUp
  \/ LoopSolution

SpecC == InitC /\ [][NextC]_vars

\* main(): the map f applied to the base points of the first solution
main_f(x) ==
  to_list(multiply(rotz, multiply(rotz, multiply(rotx, multiply(mirror_yz, x)))))

(***************************************************************************)
(* Notions the properties are stated with                                  *)
(***************************************************************************)
\* a path as the sequence of its (position, direction) snapshots
Snapshots(p) ==
  [k \in 1..Len(p) |-> [base |-> p[k].base, direction |-> p[k].direction]]

SnapshotSet(ps) == {Snapshots(ps[j]) : j \in DOMAIN ps}

Dot(a, b) == a[1] * b[1] + a[2] * b[2] + a[3] * b[3]

Perpendicular(d) == {e \in Directions : Dot(e, d) = 0}

\* the cells a slice of n steps sweeps from b in direction d
SliceCells(b, d, n) == {VAdd(b, VMul(i, d)) : i \in 1..n}

\* the valid foldings of the slices k.. of the chain from position b in
\* direction d, given the cells used so far
RECURSIVE Foldings(_, _, _, _)
Foldings(k, b, d, used) ==
  IF k > Len(chain) THEN {<<>>}
  ELSE LET cells == SliceCells(b, d, chain[k])
       IN  IF ~(cells \subseteq Cells(cubesize)) \/ cells \cap used # {}
           THEN {}
           ELSE LET rest == UNION {Foldings(k + 1, VAdd(b, VMul(chain[k], d)),
                                            e, used \cup cells)
                                   : e \in Perpendicular(d)}
                IN  {<<[base |-> b, direction |-> d]>> \o r : r \in rest}

ValidFoldings == Foldings(1, start.base, start.direction, {start.base})

\* the cells of a replay of the path p: the start cell, then the cells of
\* each slice in order
RECURSIVE ReplayFrom(_, _)
ReplayFrom(p, k) ==
  IF k > Len(p) THEN <<>>
  ELSE [i \in 1..chain[k] |-> VAdd(p[k].base, VMul(i, p[k].direction))]
       \o ReplayFrom(p, k + 1)

Replay(p) == <<start.base>> \o ReplayFrom(p, 1)

PairwiseDistinct(seq) ==
  \A i, j \in DOMAIN seq : i # j => seq[i] # seq[j]

\* the cube with the start cell used and every other cell free
StartCube ==
  [c \in Cells(cubesize) |-> IF c = start.base THEN POS_USED ELSE POS_FREE]

\* the number of cells between the starting head and the face of the cube it
\* looks at
StartRun ==
  LET axis == CHOOSE i \in 1..3 : start.direction[i] # 0
  IN  IF start.direction[axis] = 1
      THEN cubesize - 1 - start.base[axis]
      ELSE start.base[axis]

(***************************************************************************)
(* C1                                                                      *)
(***************************************************************************)
\* C1 (every solve() call ends by returning exactly the set of all valid
\* foldings from the start: none missing, none invalid), as stated
C1_SolveSoundComplete ==
  \A i \in DOMAIN results :
    /\ results[i].raised = "none"
    /\ SnapshotSet(results[i].value) = ValidFoldings

\* what the code does keep of C1: a solve() call that returns, returns exactly
\* the set of all valid foldings
ReturnedSoundComplete ==
  pc = "idle" =>
    \A i \in DOMAIN results :
      results[i].raised = "none" =>
        SnapshotSet(results[i].value) = ValidFoldings

(***************************************************************************)
(* C2                                                                      *)
(***************************************************************************)
\* _backtrack() has just returned a path to solve(), or solve() has ended
AfterReturn == pc \in {"backtrack", "idle"}

\* C2: the replay of every returned path sweeps pairwise distinct cells, all
\* of them inside the cube
C2_Occupancy ==
  AfterReturn =>
    \A j \in DOMAIN paths :
      LET cells == Replay(paths[j])
      IN  /\ PairwiseDistinct(cells)
          /\ \A i \in DOMAIN cells : InCube(cells[i], cubesize)

\* a returned path of at least three slices, one of them of two steps
C2_Witness ==
  AfterReturn /\ \E j \in DOMAIN paths :
    /\ Len(paths[j]) >= 3
    /\ \E k \in DOMAIN chain : chain[k] >= 2

(***************************************************************************)
(* C3                                                                      *)
(***************************************************************************)
\* C3: any two paths returned by the _backtrack() calls of an engine differ
C3_NoSolutionTwice ==
  \A i, j \in DOMAIN paths :
    i # j => Snapshots(paths[i]) # Snapshots(paths[j])

(***************************************************************************)
(* C4                                                                      *)
(***************************************************************************)
\* C4: after a first solve() call that returned, every later call returns
\* too, and returns the same sequence of solutions
C4_IdempotentRequery ==
  \A i \in DOMAIN results :
    results[1].raised = "none" => results[i] = results[1]

(***************************************************************************)
(* C5                                                                      *)
(***************************************************************************)
\* C5: no solve() call ends with the failed assertion of rotate_to()
C5_UnrotatedNeverEscapes ==
  \A i \in DOMAIN results : results[i].raised # "AssertionError"

(***************************************************************************)
(* C6                                                                      *)
(***************************************************************************)
ScenarioA ==
  /\ chain = <<1>>
  /\ cubesize = 1
  /\ start = BacktrackHead(Vector3D(0, 0, 0), Vector3D(1, 0, 0))

\* C6 as stated: in scenario A solve() returns one solution, a path of one
\* snapshot at position (0,0,0)
C6_ScenarioA_OneSolution ==
  (ScenarioA /\ results # <<>>) =>
    /\ results[1].raised = "none"
    /\ Len(results[1].value) = 1
    /\ Len(results[1].value[1]) = 1
    /\ results[1].value[1][1].base = Vector3D(0, 0, 0)

\* C6 as amended: in scenario A every solve() call returns the empty list
C6_ScenarioA_NoSolution ==
  ScenarioA => \A i \in DOMAIN results : results[i] = Returned(<<>>)

\* scenario A after two solve() calls
C6_Witness == ScenarioA /\ Len(results) >= 2 /\ pc = "idle"

(***************************************************************************)
(* C7                                                                      *)
(***************************************************************************)
\* C7: in scenario C solve() returns two solutions, and each position of the
\* second is the image under f of the same position of the first
C7_ScenarioC ==
  \A i \in DOMAIN results :
    /\ results[i].raised = "none"
    /\ Len(results[i].value) = 2
    /\ Len(results[i].value[1]) = Len(chain_slices)
    /\ Len(results[i].value[2]) = Len(chain_slices)
    /\ \A k \in 1..Len(chain_slices) :
         to_list(results[i].value[2][k].base)
           = main_f(results[i].value[1][k].base)

\* solve() has returned in scenario C
C7_Witness ==
  /\ chain = chain_slices
  /\ pc = "idle"
  /\ Len(results) >= 1
  /\ Len(paths) = 2

(***************************************************************************)
(* C8                                                                      *)
(***************************************************************************)
\* the first slice does not fit in the starting direction
FirstSliceBlocked == Len(chain) >= 1 /\ StartRun < chain[1]

\* C8: when the first slice does not fit, every solve() call returns the
\* empty list and leaves the engine at progress 0 with the start cell used,
\* every other cell free and the head as it was given
C8_ExhaustedAtStart ==
  (FirstSliceBlocked /\ pc = "idle" /\ results # <<>>) =>
    /\ \A i \in DOMAIN results : results[i] = Returned(<<>>)
    /\ paths = <<>>
    /\ pos = 0
    /\ head = start
    /\ cube = StartCube

\* two solve() calls were made on a start whose first slice does not fit
C8_Witness ==
  FirstSliceBlocked /\ pc = "idle" /\ Len(results) >= 2 /\ cubesize >= 2

(***************************************************************************)
(* C9                                                                      *)
(***************************************************************************)
\* C9: every solve() call terminates, its last _backtrack() call yielding the
\* exhaustion signal: a call in progress leads to a call that returned
C9_SolveTerminates ==
  (pc # "idle") ~>
    (pc = "idle" /\ results # <<>> /\ results[Len(results)].raised = "none")

(***************************************************************************)
(* C10                                                                     *)
(***************************************************************************)
\* C10: every returned path has as many snapshots as the chain has slices
C10_Length ==
  AfterReturn => \A j \in DOMAIN paths : Len(paths[j]) = Len(chain)

\* two solutions of a chain of four slices were returned
C10_Witness == AfterReturn /\ Len(chain) = 4 /\ Len(paths) >= 2

(***************************************************************************)
(* C11                                                                     *)
(***************************************************************************)
\* the index in 0..N_JNTS-1 under which the direction dir stands in the list
\* of the direction prev
OrientationIndex(prev, dir) ==
  CHOOSE i \in 0..(N_JNTS - 1) :
    ListGet(jointDirections[VStr(prev)], i) = dir

\* a path as the orientation indices chosen at its joints 1..n-1
OrientationCode(p) ==
  [k \in 1..(Len(p) - 1) |->
     OrientationIndex(p[k].direction, p[k + 1].direction)]

\* a comes before b in lexicographic order
LexLess(a, b) ==
  \E k \in 1..Len(a) :
    /\ k <= Len(b)
    /\ \A j \in 1..(k - 1) : a[j] = b[j]
    /\ a[k] < b[k]

\* C11: each path _backtrack() returns comes after the path it returned
\* before, in lexicographic order of the orientation indices
C11_SolutionOrder ==
  (pc = "backtrack" /\ Len(paths) >= 2) =>
    LexLess(OrientationCode(paths[Len(paths) - 1]),
            OrientationCode(paths[Len(paths)]))

\* what the code does keep of C11: the order holds for every chain of one or
\* more slices
SolutionOrderOfSlices ==
  (pc = "backtrack" /\ Len(paths) >= 2 /\ chain # <<>>) =>
    LexLess(OrientationCode(paths[Len(paths) - 1]),
            OrientationCode(paths[Len(paths)]))

(***************************************************************************)
(* C12                                                                     *)
(***************************************************************************)
ScenarioB == chain = <<3>> /\ cubesize = 2

\* C12: in scenario B, from every start in the cube in every direction, every
\* solve() call returns the empty list
C12_ScenarioB_NoSolution ==
  ScenarioB => \A i \in DOMAIN results : results[i] = Returned(<<>>)

\* scenario B after two solve() calls from a start with one free cell ahead
C12_Witness ==
  ScenarioB /\ Len(results) >= 2 /\ pc = "idle" /\ StartRun = 1

(***************************************************************************)
(* C13                                                                     *)
(***************************************************************************)
\* the axis of a direction: 1 for x, 2 for y, 3 for z
KeyAxis(d) == CHOOSE i \in 1..3 : d[i] # 0

\* the rotation matrix of the axis of a direction
RotationOf(d) == <<rotx, roty, rotz>>[KeyAxis(d)]

\* the keys under which the engine reads the table: the direction of the head
\* (change_direction), the direction it had before (rotate_to) and the
\* direction it started with; the starts of Init make them all 6 keys
KeysRead ==
  {start.direction, head.direction}
    \cup (IF Unrotated(head) THEN {} ELSE {head.old_direction})

\* C13: under each key, each of the candidates 1..3 is the rotation of the one
\* before, the rotation of candidate 3 is candidate 0, candidate 0 is the
\* positive base vector that follows the axis of the key, and the candidates
\* 0..3 are pairwise distinct and perpendicular to the key
C13_TableClosure ==
  \A d \in KeysRead :
    LET candidate == jointDirections[VStr(d)]
        R == RotationOf(d)
    IN  /\ \A i \in 1..3 :
             ListGet(candidate, i) = multiply(R, ListGet(candidate, i - 1))
        /\ multiply(R, ListGet(candidate, 3)) = ListGet(candidate, 0)
        /\ ListGet(candidate, 0) = baseVectors[(KeyAxis(d) % N_BASEVEC) + 1]
        /\ \A i, j \in 0..3 :
             i # j => ListGet(candidate, i) # ListGet(candidate, j)
        /\ \A i \in 0..3 : Dot(ListGet(candidate, i), d) = 0

\* the head has been turned to candidate 3 under the key of a negative
\* direction
C13_Witness ==
  /\ pc = "loop"
  /\ ~Unrotated(head)
  /\ get_sign([direction |-> head.old_direction]) = -1
  /\ cube_get_offset(cube, head, 0, cubesize) = 3
  /\ head.direction = ListGet(jointDirections[VStr(head.old_direction)], 3)

(***************************************************************************)
(* C14                                                                     *)
(***************************************************************************)
\* C14 (the table has 6 keys, the list under each key has 4 directions, and
\* a direction and its inverse have the same list), as stated
C14_TableShape ==
  /\ Cardinality(DOMAIN jointDirections) = 6
  /\ \A d \in KeysRead :
       /\ Len(jointDirections[VStr(d)]) = 4
       /\ jointDirections[VStr(d)] = jointDirections[VStr(VMul(-1, d))]

\* what the code does keep of C14: 6 keys, the same list under a direction
\* and its inverse; the list has one direction more, the first one again
TableShapeKept ==
  /\ Cardinality(DOMAIN jointDirections) = 6
  /\ \A d \in KeysRead :
       /\ Len(jointDirections[VStr(d)]) = N_PLANE_BASEDIR + 1
       /\ ListGet(jointDirections[VStr(d)], N_PLANE_BASEDIR)
            = ListGet(jointDirections[VStr(d)], 0)
       /\ jointDirections[VStr(d)] = jointDirections[VStr(VMul(-1, d))]

(***************************************************************************)
(* C15                                                                     *)
(***************************************************************************)
\* the cells the slices recorded in the path p sweep
SweptCells(p) ==
  UNION {SliceCells(p[k].base, p[k].direction, chain[k]) : k \in DOMAIN p}

\* C15: at the test of the loop condition, before each iteration and when the
\* loop ends and the path is returned, the cells that are not free are the
\* start cell and the cells swept by the slices of the path
C15_GridPathConsistent ==
  pc = "loop" =>
    {c \in DOMAIN cube : cube[c] # POS_FREE}
      = {start.base} \cup SweptCells(path)

\* the loop goes on after a solution was returned and its last slice undone,
\* with slices of two steps in the chain
C15_Witness ==
  /\ InLoop
  /\ paths # <<>>
  /\ Len(path) >= 1
  /\ \E k \in DOMAIN chain : chain[k] >= 2
  /\ \E c \in DOMAIN cube :
       cube[c] = POS_FREE /\ c \in SweptCells(paths[Len(paths)])

(***************************************************************************)
(* C16                                                                     *)
(***************************************************************************)
\* C16: in every state of the loop the path has _pos snapshots, and _pos is
\* at least 0 and at most the number of slices
C16_PathLengthIsProgress ==
  pc = "loop" =>
    /\ Len(path) = pos
    /\ 0 <= pos
    /\ pos <= Len(chain)

\* the loop goes on two or more slices before the end of a solution returned
\* earlier: a resumed run has backed up further, and has turned the joint at
\* the head
C16_Witness ==
  /\ InLoop
  /\ paths # <<>>
  /\ 1 <= pos
  /\ pos <= Len(chain) - 2
  /\ joint_state_at_head >= 1

(***************************************************************************)
(* C17                                                                     *)
(***************************************************************************)
\* an iteration of the loop starts with a wrapped joint state at the head
WrappedAtHead == InLoop /\ cube[head.base] >= N_JNTS

\* the step returns the exhaustion signal: solve() returns _paths, and the
\* engine is left as it is
ExhaustionStep ==
  /\ pc' = "idle"
  /\ results' = Append(results, Returned(paths))
  /\ UNCHANGED <<pos, head, cube, paths>>

\* the step backs up: it takes the last snapshot off the path, decrements
\* _pos, frees the cells of the slice of that snapshot, reads the joint state
\* s at the snapshot, turns the head to orientation s+1, writes s+1 into the
\* cell, and the loop goes on
BackUpStep ==
  LET popped == path[Len(path)]
      freed == SliceCells(popped.base, popped.direction, chain[pos])
      s == cube[popped.base]
  IN  /\ pos >= 1
      /\ path' = SubSeq(path, 1, Len(path) - 1)
      /\ pos' = pos - 1
      /\ \A c \in freed : cube'[c] = POS_FREE
      /\ head'.base = popped.base
      /\ head'.old_direction = popped.old_direction
      /\ head'.direction
           = ListGet(jointDirections[VStr(popped.old_direction)],
                     (s + 1) % N_JNTS)
      /\ cube'[popped.base] = s + 1
      /\ \A c \in DOMAIN cube \ (freed \cup {popped.base}) : cube'[c] = cube[c]
      /\ pc' = "loop"
      /\ UNCHANGED <<paths, results>>

\* C17 as stated: with a wrapped joint the iteration returns the exhaustion
\* signal exactly when _pos is 0, and backs up at every _pos of 1 or more
C17_WrappedExhaustsAtZero ==
  [][WrappedAtHead => IF pos = 0 THEN ExhaustionStep ELSE BackUpStep]_vars

\* C17 as amended: with a wrapped joint the iteration returns the exhaustion
\* signal exactly when _pos is 1, and backs up at every _pos of 2 or more; the
\* joint at _pos 0 is never wrapped
C17_WrappedExhaustsAtOne ==
  [][WrappedAtHead =>
       /\ pos >= 1
       /\ IF pos = 1 THEN ExhaustionStep ELSE BackUpStep]_vars

\* exhaustion was returned at _pos 1 with the joint wrapped, after solutions
\* of a chain of three or more slices, which takes back-ups from deeper joints
C17_Witness ==
  /\ pc = "idle"
  /\ pos = 1
  /\ cube[head.base] >= N_JNTS
  /\ results # <<>>
  /\ results[Len(results)].raised = "none"
  /\ Len(chain) >= 3
  /\ paths # <<>>

(***************************************************************************)
(* C18                                                                     *)
(***************************************************************************)
\* an iteration of the loop starts with a joint state that is not wrapped and
\* with room for the slice
SliceFits ==
  /\ InLoop
  /\ cube[head.base] < N_JNTS
  /\ steps_allowed >= chain[pos + 1]

\* C18: an iteration with room for the slice marks the cells at the offsets
\* 1..needed-1 used and the cell at the offset needed with joint state 0,
\* appends the head as it is to the path, moves the head by needed steps,
\* makes its direction its previous direction and the first direction of the
\* table under it its direction, adds 1 to _pos, and leaves every other cell
\* and the list of solutions as they are
C18_PlacementStep ==
  [][SliceFits =>
       LET needed == chain[pos + 1]
           interior == SliceCells(head.base, head.direction, needed - 1)
           landing == VAdd(head.base, VMul(needed, head.direction))
       IN  /\ \A c \in interior : cube'[c] = POS_USED
           /\ cube'[landing] = JOINT0
           /\ path' = Append(path, head)
           /\ head'.base = landing
           /\ head'.old_direction = head.direction
           /\ head'.direction
                = ListGet(jointDirections[VStr(head.direction)], 0)
           /\ pos' = pos + 1
           /\ \A c \in DOMAIN cube \ (interior \cup {landing}) :
                cube'[c] = cube[c]
           /\ paths' = paths]_vars

\* a slice of two or more steps has just been laid down from a joint that had
\* been turned before
C18_Witness ==
  /\ pc = "loop"
  /\ pos >= 2
  /\ chain[pos] >= 2
  /\ Len(path) = pos
  /\ cube[path[pos].base] >= 1
  /\ head.base = VAdd(path[pos].base, VMul(chain[pos], path[pos].direction))
  /\ head.old_direction = path[pos].direction
  /\ cube[head.base] = JOINT0
  /\ cube[VAdd(path[pos].base, path[pos].direction)] = POS_USED

(***************************************************************************)
(* C19                                                                     *)
(***************************************************************************)
\* an iteration of the loop starts at a joint whose state is not wrapped,
\* with no room for the slice
SliceBlockedAtJoint ==
  /\ InLoop
  /\ pos >= 1
  /\ cube[head.base] < N_JNTS
  /\ steps_allowed < chain[pos + 1]

\* C19: an iteration with no room for the slice at a joint in state s writes
\* s+1 into the cell of the head, makes the direction number (s+1) mod 4 of
\* the list under the previous direction the direction of the head, and
\* leaves the position and the previous direction of the head, _pos, the
\* path, the list of solutions and every other cell as they are
C19_RotationStep ==
  [][SliceBlockedAtJoint =>
       LET s == cube[head.base]
       IN  /\ cube'[head.base] = s + 1
           /\ head'.direction
                = ListGet(jointDirections[VStr(head.old_direction)],
                          (s + 1) % N_JNTS)
           /\ head'.base = head.base
           /\ head'.old_direction = head.old_direction
           /\ pos' = pos
           /\ path' = path
           /\ paths' = paths
           /\ \A c \in DOMAIN cube \ {head.base} : cube'[c] = cube[c]]_vars

\* the joint before the last slice has been turned to its last direction in
\* a first run: the loop turned it, as no back-up and no resumed run comes to
\* this joint before a solution is returned
C19_Witness ==
  /\ InLoop
  /\ paths = <<>>
  /\ pos >= 1
  /\ pos = Len(chain) - 1
  /\ cube[head.base] = N_JNTS - 1
  /\ head.direction
       = ListGet(jointDirections[VStr(head.old_direction)], N_JNTS - 1)

C21_AppendOnly ==
  [][/\ Len(paths') >= Len(paths)
     /\ \A j \in DOMAIN paths : paths'[j] = paths[j]]_vars

\* the search goes on after two or more solutions, two or more slices before
\* the end of the chain: it was resumed from the last solution and has backed
\* up further
C21_Witness ==
  /\ InLoop
  /\ Len(paths) >= 2
  /\ pos <= Len(chain) - 2
  /\ head # paths[Len(paths)][pos + 1]

(***************************************************************************)
(* C22                                                                     *)
(***************************************************************************)
\* the cell of the head h holds a value s in 0..N_JNTS, h has a previous
\* direction, and its direction is number s mod N_JNTS of the list under it
JointAgrees(h) ==
  LET s == cube[h.base]
  IN  /\ s \in 0..N_JNTS
      /\ h.old_direction # None
      /\ h.direction
           = ListGet(jointDirections[VStr(h.old_direction)], s % N_JNTS)

\* C22: before every iteration of the loop at _pos >= 1 the joint state in
\* the cell of the head and the direction of the head agree; so they do for
\* every head a pop restores at _pos >= 1: the snapshots after the first one
\* of the working path, and of the last solution when a run is resumed
C22_JointStateAgreesWithDirection ==
  /\ (InLoop /\ pos >= 1) => JointAgrees(head)
  /\ pc = "loop" => \A k \in 2..Len(path) : JointAgrees(path[k])
  /\ (pc = "backtrack" /\ paths # <<>>) =>
       \A k \in 2..Len(paths[Len(paths)]) : JointAgrees(paths[Len(paths)][k])

\* an iteration starts with a wrapped joint at the head, two or more slices
\* into the chain, the joint before it turned
C22_Witness ==
  /\ InLoop
  /\ pos >= 2
  /\ cube[head.base] = N_JNTS
  /\ cube[path[pos].base] >= 1

(***************************************************************************)
(* C23                                                                     *)
(***************************************************************************)
\* C23: no read and no write of the cube, in any _backtrack() call, has
\* addressed a cell with a coordinate outside 0..cubesize-1
C23_InBoundsAccess == ~oob

\* after a solution was returned and its last slice freed, an iteration
\* starts with the head at a face of the cube, looking out of it
C23_Witness ==
  /\ InLoop
  /\ pos >= 1
  /\ paths # <<>>
  /\ ~InCube(Offset(head, 1), cubesize)

(***************************************************************************)
(* C24                                                                     *)
(***************************************************************************)
\* the first snapshot of p has the position and the direction of the start,
\* and each next one stands where the slice of the one before ends and looks
\* along a base direction perpendicular to it
PathShape(p) ==
  /\ Len(p) >= 1 =>
       /\ p[1].base = start.base
       /\ p[1].direction = start.direction
  /\ \A k \in 1..(Len(p) - 1) :
       /\ p[k + 1].base = VAdd(p[k].base, VMul(chain[k], p[k].direction))
       /\ p[k + 1].direction \in Perpendicular(p[k].direction)

\* C24: in every state the working path has this shape, and so has the
\* solution _backtrack() has just returned
C24_PathShape ==
  /\ PathShape(path)
  /\ (pc = "backtrack" /\ paths # <<>>) => PathShape(paths[Len(paths)])

\* the loop has ended with a path of three or more snapshots whose first
\* slice has two or more steps, after an earlier solution
C24_Witness ==
  /\ pc = "loop"
  /\ ~LoopCondition
  /\ Len(path) >= 3
  /\ chain[1] >= 2
  /\ paths # <<>>

====
